---- MODULE Spec2Model ----
(***************************************************************************)
(* A model of the acdiag diagnostics+logging package (src/diag.go).        *)
(*                                                                         *)
(* Text is a sequence of tokens: "a" is an ordinary character, "\n" the    *)
(* newline, "%v" a formatting verb.  Time is counted in ticks; the zero    *)
(* time.Time (the value a missing mailSent entry reads as) is tick 0, and  *)
(* the clock starts at Epoch, later than any window after tick 0.          *)
(*                                                                         *)
(* Goroutines are the members of Procs.  A goroutine's position is pc[p];  *)
(* the arguments of the call it is in are call[p].                         *)
(***************************************************************************)
EXTENDS Integers, Sequences, FiniteSets, TLC

\* ------------------------------------------------------------- bounds
MaxLimit == 2          \* largest MailRateLimit a configuration carries, in ticks
TicksPerMinute == 2    \* clock ticks in one minute
MaxTicks == 4          \* how far the clock advances past Epoch
MaxConfigs == 2        \* SetConfig calls in one run
MaxFmt == 3            \* tokens in a format string
MaxHandles == 2        \* handles on the heap

Procs == {"g1", "g2"}

\* const rateLimit = time.Minute
rateLimit == TicksPerMinute

\* the first reading of time.Now(): later than zero time + any window
Epoch == MaxLimit + TicksPerMinute + 1

NL == "\n"
Chars == {"a", NL}
Tokens == {"a", NL, "%v"}

SeqsUpTo(S, n) == UNION {[1..k -> S] : k \in 0..n}

\* ------------------------------------------------------------- text

EndsWithNewline(t) == Len(t) > 0 /\ t[Len(t)] = NL

\* format[len(format)-1] == '\n' { format = format[:len(format)-1] }
\* (defined for a non-empty format; the index panics on the empty one)
StripTrailingNewline_Keep(format) == format
StripTrailingNewline(format) ==
    IF format[Len(format)] = NL THEN SubSeq(format, 1, Len(format) - 1) ELSE format

\* fmt.Sprintf: each verb takes the next argument; a verb with no argument
\* left prints %!v(MISSING); arguments left over print %!(EXTRA ...) at the end
RECURSIVE Sprintf(_, _)
Sprintf(format, args) ==
    IF format = <<>>
    THEN IF args = <<>> THEN <<>> ELSE <<"%!(EXTRA)">>
    ELSE IF Head(format) = "%v"
         THEN IF args = <<>>
              THEN <<"%!v(MISSING)">> \o Sprintf(Tail(format), args)
              ELSE Head(args) \o Sprintf(Tail(format), Tail(args))
         ELSE <<Head(format)>> \o Sprintf(Tail(format), args)

\* strings.LastIndex(s, c), 0-based, -1 when absent
RECURSIVE LastIndex(_, _)
LastIndex(s, c) ==
    IF s = <<>> THEN -1
    ELSE IF s[Len(s)] = c THEN Len(s) - 1
         ELSE LastIndex(SubSeq(s, 1, Len(s) - 1), c)

\* Go's s[lo:hi] (0-based, hi exclusive) on a sequence
Slice(s, lo, hi) == SubSeq(s, lo + 1, hi)

\* cleanFilename: ok is FALSE where the slice file[0:si-1] is out of range
cleanFilename(file) ==
    LET si == LastIndex(file, "/") IN
    IF si = -1 THEN [ok |-> TRUE, v |-> file]
    ELSE IF si - 1 < 0 THEN [ok |-> FALSE, v |-> <<>>]
    ELSE LET ssi == LastIndex(Slice(file, 0, si - 1), "/")
             s2 == IF ssi # -1 THEN ssi ELSE si
         IN [ok |-> TRUE, v |-> Slice(file, s2 + 1, Len(file))]

cleanFunName(n) ==
    LET dot == LastIndex(n, ".") IN
    IF dot # -1 THEN Slice(n, dot + 1, Len(n)) ELSE n

\* what runtime.Caller(d.uplevel) and runtime.FuncForPC hand back
CallSites ==
    { [ok |-> FALSE, file |-> <<>>, fun |-> <<>>],
      [ok |-> TRUE, file |-> <<"/", "p", "/", "d", "/", "f">>, fun |-> <<"p", ".", "F">>],
      [ok |-> TRUE, file |-> <<"/", "f">>, fun |-> <<"F">>] }

\* the call-site prefix of diag(); ok is FALSE where cleanFilename panics
InfoPrefix(withInfo, site) ==
    IF ~withInfo THEN [ok |-> TRUE, v |-> <<>>]
    ELSE IF ~site.ok THEN [ok |-> TRUE, v |-> <<"?:?: ">>]
    ELSE LET f == cleanFilename(site.file) IN
         IF ~f.ok THEN [ok |-> FALSE, v |-> <<>>]
         ELSE [ok |-> TRUE, v |-> f.v \o <<":n ">> \o cleanFunName(site.fun) \o <<"(): ">>]

\* ------------------------------------------------------------- handles

Logger(sect) ==
    [section |-> sect, uplevel |-> 2, mailTo |-> "", mailFrom |-> "",
     progname |-> "", debugAll |-> FALSE, useStderr |-> TRUE]

defaultDiag ==
    [section |-> "default", uplevel |-> 3, mailTo |-> "", mailFrom |-> "",
     progname |-> "", debugAll |-> FALSE, useStderr |-> TRUE]

WithMailTo_FromField(d, e) == [d EXCEPT !.mailFrom = e]
WithMailTo(d, e) == [d EXCEPT !.mailTo = e]

WithMailFrom(d, e) == [d EXCEPT !.mailFrom = e]

ChildLogger(d, sect) == [d EXCEPT !.section = sect]

SetDebugAll(d, x) == [d EXCEPT !.debugAll = x]

SetStderr(d, x) == [d EXCEPT !.useStderr = x]

\* ------------------------------------------------------------- policy

\* the logconf each leveled call passes to diag()
logconf(kind) ==
    CASE kind = "Verbose" -> [logprio |-> "LOG_INFO", toStderr |-> TRUE, toEmail |-> FALSE,
                              withInfo |-> FALSE, withTrace |-> FALSE]
      [] kind = "Debug"   -> [logprio |-> "LOG_DEBUG", toStderr |-> TRUE, toEmail |-> FALSE,
                              withInfo |-> TRUE, withTrace |-> FALSE]
      [] kind = "Problem" -> [logprio |-> "LOG_WARNING", toStderr |-> TRUE, toEmail |-> TRUE,
                              withInfo |-> TRUE, withTrace |-> FALSE]
      [] kind = "Bug"     -> [logprio |-> "LOG_ERR", toStderr |-> TRUE, toEmail |-> TRUE,
                              withInfo |-> TRUE, withTrace |-> TRUE]
      [] kind = "Fatal"   -> [logprio |-> "LOG_ERR", toStderr |-> TRUE, toEmail |-> TRUE,
                              withInfo |-> TRUE, withTrace |-> TRUE]

LogKinds == {"Verbose", "Debug", "Problem", "Bug", "Fatal"}

\* Fatal goes on to os.Exit(-1) once diag() has returned; the others return
AfterDiag(kind) == IF kind = "Fatal" THEN "exit" ELSE "idle"

\* ------------------------------------------------------------- configuration

\* a Go map[string]bool: nil, or the function from the keys present
EmptyMap == [k \in {} |-> FALSE]
NilMap == [isNil |-> TRUE, m |-> EmptyMap]
MakeMap(keys, v) == [isNil |-> FALSE, m |-> [k \in keys |-> v]]

\* a read of a missing key, and of any key of a nil map, is false
MapGet(dm, k) == IF k \in DOMAIN dm.m THEN dm.m[k] ELSE FALSE

\* dm[k] = v on a non-nil map
MapSet(dm, k, v) ==
    [isNil |-> FALSE, m |-> [x \in (DOMAIN dm.m) \cup {k} |-> IF x = k THEN v ELSE dm.m[x]]]

\* var config = &Config{}
ZeroConfig ==
    [MailTo |-> "", MailFrom |-> "", MailRateLimit |-> 0, Sendmail |-> "",
     Facility |-> "", ProgName |-> "", Debug |-> NilMap]

prioName ==
    {"kern", "user", "mail", "daemon", "auth", "syslog", "lpr", "news", "uucp", "cron",
     "authpriv", "ftp", "local0", "local1", "local2", "local3", "local4", "local5",
     "local6", "local7"}

\* strings.ToLower on the facility names the model passes in
ToLower(s) ==
    CASE s = "LOCAL5" -> "local5"
      [] s = "Mail" -> "mail"
      [] OTHER -> s

\* openSyslog: the new value of slog ("nil", or the facility the sink is open
\* on); newOk is whether syslog.New succeeded
openSyslog_AnyName(cur, fac, newOk) ==
    IF fac = "" THEN cur ELSE IF newOk THEN ToLower(fac) ELSE "nil"
openSyslog(cur, fac, newOk) ==
    IF ToLower(fac) \notin prioName THEN cur
    ELSE IF newOk THEN ToLower(fac) ELSE "nil"

\* the gate of (*Diag).Debug
DebugEnabled_NoAll(d, c) == d.debugAll \/ MapGet(c.Debug, d.section)
DebugEnabled(d, c) ==
    d.debugAll \/ MapGet(c.Debug, d.section) \/ MapGet(c.Debug, "all")

\* rateLimited's test: may a mail go out now
Allowed_AtOrAfter(now, sent, limit) == now >= sent + limit
Allowed(now, sent, limit) == now > sent + limit

\* limit := cf.MailRateLimit; if limit == 0 { limit = rateLimit }
Window_NoDefault(c) == c.MailRateLimit
Window(c) == IF c.MailRateLimit = 0 THEN rateLimit ELSE c.MailRateLimit

\* ------------------------------------------------------------- state

VARIABLES
    handles,    \* the heap of Diag values: a sequence, a handle is an index
    ret,        \* the last handle operation: what it was called on and returned
    cfgs,       \* the heap of Config values, by the number of the SetConfig call
    config,     \* var config: the index of the active Config
    nconf,      \* SetConfig calls so far
    slog,       \* var slog: "nil" or the facility of the open syslog.Writer
    mailSent,   \* var mailSent: address -> time of the last allowed mail (0: none)
    clock,      \* time.Now()
    writer,     \* var lock: the goroutine holding it exclusively, if any
    readers,    \* var lock: the goroutines holding it shared
    pc,         \* where each goroutine is
    call,       \* the arguments of the call each goroutine is in
    cf,         \* the *Config getConfig() returned to each goroutine
    res,        \* what each goroutine's call has done so far (at: the time.Now()
                \* of its rateLimited)
    overlap,    \* whether a setter held the lock at some point of each goroutine's call
    allowLog,   \* the decisions of rateLimited that allowed a mail, numbered
    raced,      \* the shared variables read without the lock while a writer wrote them
    exited      \* whether the process has ended, and its exit status

vars == <<handles, ret, cfgs, config, nconf, slog, mailSent, clock, writer, readers,
          pc, call, cf, res, overlap, allowLog, raced, exited>>

handleVars == <<handles, ret>>
storeVars == <<cfgs, config, nconf, slog>>
lockVars == <<writer, readers>>

Addrs == {"x", "y"}

NoSite == [ok |-> FALSE, file |-> <<>>, fun |-> <<>>]
NoCall ==
    [kind |-> "none", d |-> defaultDiag, format |-> <<>>, args |-> <<>>, site |-> NoSite,
     cfg |-> ZeroConfig, name |-> "", val |-> FALSE]
NoRes ==
    [text |-> <<>>, stderr |-> FALSE, syslog |-> "nil", prio |-> "", mail |-> "none",
     at |-> 0, gate |-> "none", clean |-> FALSE, end |-> "none"]

NoRet == [op |-> "none", recv |-> 0, new |-> 0, arg |-> "", flag |-> FALSE]

InitRest ==
    /\ handles = <<defaultDiag>>
    /\ ret = NoRet
    /\ slog = "nil"
    /\ mailSent = [a \in Addrs |-> 0]
    /\ clock = Epoch
    /\ writer = {}
    /\ readers = {}
    /\ pc = [p \in Procs |-> "idle"]
    /\ call = [p \in Procs |-> NoCall]
    /\ cf = [p \in Procs |-> 0]
    /\ res = [p \in Procs |-> NoRes]
    /\ overlap = [p \in Procs |-> FALSE]
    /\ allowLog = {}
    /\ raced = {}
    /\ exited = [done |-> FALSE, code |-> 0]

\* the state of the package once its variables are initialised
Init ==
    /\ cfgs = [i \in 0..MaxConfigs |-> ZeroConfig]
    /\ config = 0
    /\ nconf = 0
    /\ InitRest

Running == ~exited.done

\* the state after main has called SetConfig(c) once, before any goroutine logs
Configured(c) ==
    /\ cfgs = [i \in 0..MaxConfigs |-> IF i = 1 THEN c ELSE ZeroConfig]
    /\ config = 1
    /\ nconf = 1
    /\ InitRest

\* a Config no goroutine can reach any more is collected: only the active one
\* and those a goroutine still holds a pointer to are kept
Collect(h, cur, held) ==
    [i \in DOMAIN h |-> IF i = cur \/ i \in held THEN h[i] ELSE ZeroConfig]

\* the positions at which a goroutine still uses the pointer in cf
HoldsConfig(pos) == pos \in {"dbg_gate", "em_rate", "em_send"}
Held(pcs, cfs) == {cfs[q] : q \in {r \in Procs : HoldsConfig(pcs[r])}}

\* the positions of a Debug call up to its test of the debug flags
BeforeGate(pos) == pos \in {"dbg_rlock", "dbg_read", "dbg_gate"}

\* ------------------------------------------------------------- log calls

\* a leveled call on handle value d enters; Debug goes to getConfig() first
Call(p, kind, d, format, args, site) ==
    /\ Running
    /\ pc[p] = "idle"
    /\ call' = [call EXCEPT ![p] = [NoCall EXCEPT !.kind = kind, !.d = d, !.format = format,
                                                  !.args = args, !.site = site]]
    /\ res' = [res EXCEPT ![p] = [NoRes EXCEPT !.end = "running"]]
    /\ overlap' = [overlap EXCEPT ![p] = kind = "Debug" /\ writer # {}]
    /\ pc' = [pc EXCEPT ![p] = IF kind = "Debug" THEN "dbg_rlock" ELSE "diag"]
    /\ UNCHANGED <<handleVars, storeVars, lockVars, mailSent, clock, cf, allowLog, raced, exited>>

\* getConfig(): lock.RLock()
RLock(p, from, to) ==
    /\ Running
    /\ pc[p] = from
    /\ writer = {}
    /\ readers' = readers \cup {p}
    /\ pc' = [pc EXCEPT ![p] = to]
    /\ UNCHANGED <<handleVars, storeVars, writer, mailSent, clock, call, cf, res, overlap,
                   allowLog, raced, exited>>

DebugRLock(p) == RLock(p, "dbg_rlock", "dbg_read")

\* getConfig(): return config; lock.RUnlock()
DebugGetConfig(p) ==
    /\ Running
    /\ pc[p] = "dbg_read"
    /\ cf' = [cf EXCEPT ![p] = config]
    /\ readers' = readers \ {p}
    /\ pc' = [pc EXCEPT ![p] = "dbg_gate"]
    /\ UNCHANGED <<handleVars, storeVars, writer, mailSent, clock, call, res, overlap,
                   allowLog, raced, exited>>

\* a SetDebugFlag is between its Lock and its Unlock, writing the map of Config c
MapWriterActive(c) == \E q \in writer : pc[q] = "sdf_write" /\ config = c

\* the outcomes of the unlocked reads cf.Debug[d.section], cf.Debug["all"]: the
\* gate's verdict, or, while the map is being written, any verdict or the
\* runtime's "concurrent map read and map write"
GateOutcomes(p) ==
    IF MapWriterActive(cf[p]) THEN {"pass", "suppress", "crash"}
    ELSE IF DebugEnabled(call[p].d, cfgs[cf[p]]) THEN {"pass"} ELSE {"suppress"}

\* (*Diag).Debug after getConfig(): the test of line 117
DebugGate(p) ==
    /\ Running
    /\ pc[p] = "dbg_gate"
    /\ \E o \in GateOutcomes(p) :
          /\ res' = [res EXCEPT ![p].gate = o,
                                ![p].clean = ~overlap[p],
                                ![p].end = CASE o = "suppress" -> "returned"
                                             [] o = "crash" -> "crashed"
                                             [] OTHER -> @]
          /\ pc' = [pc EXCEPT ![p] = CASE o = "pass" -> "diag"
                                       [] o = "suppress" -> "idle"
                                       [] OTHER -> "crashed"]
          /\ exited' = IF o = "crash" THEN [done |-> TRUE, code |-> 2] ELSE exited
          /\ cfgs' = Collect(cfgs, config, Held(pc', cf))
    /\ raced' = raced \cup (IF MapWriterActive(cf[p]) THEN {"config.Debug"} ELSE {})
    /\ cf' = [cf EXCEPT ![p] = 0]
    /\ overlap' = [overlap EXCEPT ![p] = FALSE]
    /\ UNCHANGED <<handleVars, config, nconf, slog, lockVars, mailSent, clock, call,
                   allowLog>>

\* a SetConfig is between its Lock and its Unlock and will assign slog
SlogWriterActive ==
    \E q \in writer : /\ pc[q] = "sc_write"
                      /\ slog = "nil"
                      /\ ToLower(call[q].cfg.Facility) \in prioName

\* diag(): the text is built and handed to stderr and syslog
Diag(p) ==
    /\ Running
    /\ pc[p] = "diag"
    /\ LET c == call[p]
           lc == logconf(c.kind)
           pre == InfoPrefix(lc.withInfo, c.site)
       IN IF ~pre.ok \/ c.format = <<>>
          THEN \* index out of range: cleanFilename's slice, or format[len(format)-1]
               /\ res' = [res EXCEPT ![p].end = "panicked"]
               /\ pc' = [pc EXCEPT ![p] = "panicked"]
               /\ UNCHANGED raced
          ELSE /\ res' = [res EXCEPT
                    ![p].text = pre.v \o Sprintf(StripTrailingNewline(c.format), c.args),
                    ![p].stderr = lc.toStderr /\ c.d.useStderr,
                    ![p].syslog = slog,
                    ![p].prio = IF slog # "nil" THEN lc.logprio ELSE "",
                    ![p].end = IF lc.toEmail \/ c.kind = "Fatal" THEN @ ELSE "returned"]
               /\ pc' = [pc EXCEPT ![p] = IF lc.toEmail THEN "em_rlock" ELSE AfterDiag(c.kind)]
               /\ raced' = raced \cup (IF SlogWriterActive THEN {"slog"} ELSE {})
    /\ UNCHANGED <<handleVars, storeVars, lockVars, mailSent, clock, call, cf, overlap,
                   allowLog, exited>>

EmailRLock(p) == RLock(p, "em_rlock", "em_read")

\* the effective recipient and sender of sendEmail()
MailTo(d, c) == IF d.mailTo = "" THEN c.MailTo ELSE d.mailTo
MailFrom(d, c) == IF d.mailFrom = "" THEN c.MailFrom ELSE d.mailFrom

\* what a call that has finished its dispatch does next
Finish(p, r) ==
    /\ pc' = [pc EXCEPT ![p] = AfterDiag(call[p].kind)]
    /\ res' = [res EXCEPT ![p] = [r EXCEPT !.end = IF call[p].kind = "Fatal" THEN @ ELSE "returned"]]

\* sendEmail(): getConfig(), then the test of an empty mailTo or mailFrom
EmailGetConfig(p) ==
    /\ Running
    /\ pc[p] = "em_read"
    /\ readers' = readers \ {p}
    /\ IF MailTo(call[p].d, cfgs[config]) = "" \/ MailFrom(call[p].d, cfgs[config]) = ""
       THEN /\ Finish(p, [res[p] EXCEPT !.mail = "noaddr"])
            /\ UNCHANGED cf
       ELSE /\ pc' = [pc EXCEPT ![p] = "em_rate"]
            /\ cf' = [cf EXCEPT ![p] = config]
            /\ UNCHANGED res
    /\ UNCHANGED <<handleVars, storeVars, writer, mailSent, clock, call, overlap, allowLog,
                   raced, exited>>

\* (*Config).rateLimited, under lock.Lock()
RateLimited(p) ==
    /\ Running
    /\ pc[p] = "em_rate"
    /\ writer = {} /\ readers = {}
    /\ LET c == cfgs[cf[p]]
           addr == MailTo(call[p].d, c)
       IN IF Allowed(clock, mailSent[addr], Window(c))
          THEN /\ mailSent' = [mailSent EXCEPT ![addr] = clock]
               /\ allowLog' = allowLog \cup {[n |-> Cardinality(allowLog) + 1, addr |-> addr,
                                               t |-> clock, cfg |-> cf[p]]}
               /\ pc' = [pc EXCEPT ![p] = "em_send"]
               /\ res' = [res EXCEPT ![p].at = clock]
               /\ UNCHANGED <<cfgs, cf>>
          ELSE /\ Finish(p, [res[p] EXCEPT !.mail = "limited", !.at = clock])
               /\ cfgs' = Collect(cfgs, config, Held(pc', cf))
               /\ cf' = [cf EXCEPT ![p] = 0]
               /\ UNCHANGED <<mailSent, allowLog>>
    /\ UNCHANGED <<handleVars, config, nconf, slog, lockVars, clock, call, overlap,
                   raced, exited>>

\* sendEmail(): the mail transport is started, fed and waited for; what
\* cmd.Start and cmd.Wait return is dropped
Sendmail(p) ==
    /\ Running
    /\ pc[p] = "em_send"
    /\ Finish(p, [res[p] EXCEPT !.mail = IF cfgs[cf[p]].Sendmail # ""
                                         THEN cfgs[cf[p]].Sendmail ELSE "sendmail"])
    /\ cfgs' = Collect(cfgs, config, Held(pc', cf))
    /\ cf' = [cf EXCEPT ![p] = 0]
    /\ UNCHANGED <<handleVars, config, nconf, slog, lockVars, mailSent, clock, call,
                   overlap, allowLog, raced, exited>>

\* (*Diag).Fatal: os.Exit(-1)
Exit(p) ==
    /\ Running
    /\ pc[p] = "exit"
    /\ exited' = [done |-> TRUE, code |-> -1]
    /\ res' = [res EXCEPT ![p].end = "exited"]
    /\ pc' = [pc EXCEPT ![p] = "exited"]
    /\ UNCHANGED <<handleVars, storeVars, lockVars, mailSent, clock, call, cf, overlap,
                   allowLog, raced>>

\* ------------------------------------------------------------- setters

\* lock.Lock() of SetConfig and SetDebugFlag
WLock(p, kind, cfg, name, val, to) ==
    /\ Running
    /\ pc[p] = "idle"
    /\ writer = {} /\ readers = {}
    /\ writer' = {p}
    /\ call' = [call EXCEPT ![p] = [NoCall EXCEPT !.kind = kind, !.cfg = cfg, !.name = name,
                                                  !.val = val]]
    /\ res' = [res EXCEPT ![p] = [NoRes EXCEPT !.end = "running"]]
    /\ overlap' = [q \in Procs |-> overlap[q] \/ BeforeGate(pc[q])]
    /\ pc' = [pc EXCEPT ![p] = to]
    /\ UNCHANGED <<handleVars, storeVars, readers, mailSent, clock, cf, allowLog, raced, exited>>

SetConfigLock(p, cfg) ==
    /\ nconf < MaxConfigs
    /\ WLock(p, "SetConfig", cfg, "", FALSE, "sc_write")

\* SetConfig after lock.Lock(): config = &cf, openSyslog if no sink is open
SetConfig(p) ==
    /\ Running
    /\ pc[p] = "sc_write"
    /\ config' = nconf + 1
    /\ nconf' = nconf + 1
    /\ cfgs' = Collect([cfgs EXCEPT ![nconf + 1] = call[p].cfg], nconf + 1, Held(pc, cf))
    /\ \E newOk \in BOOLEAN :
          slog' = IF slog = "nil" THEN openSyslog(slog, call[p].cfg.Facility, newOk) ELSE slog
    /\ writer' = {}
    /\ call' = [call EXCEPT ![p].cfg = ZeroConfig]
    /\ res' = [res EXCEPT ![p].end = "returned"]
    /\ pc' = [pc EXCEPT ![p] = "idle"]
    /\ UNCHANGED <<handleVars, readers, mailSent, clock, cf, overlap, allowLog, raced,
                   exited>>

SetDebugFlagLock(p, f, v) == WLock(p, "SetDebugFlag", ZeroConfig, f, v, "sdf_write")

\* SetDebugFlag after lock.Lock(): config.Debug[f] = v, which panics
\* ("assignment to entry in nil map") on a nil map; the deferred Unlock runs
SetDebugFlag(p) ==
    /\ Running
    /\ pc[p] = "sdf_write"
    /\ IF cfgs[config].Debug.isNil
       THEN /\ res' = [res EXCEPT ![p].end = "panicked"]
            /\ pc' = [pc EXCEPT ![p] = "panicked"]
            /\ UNCHANGED cfgs
       ELSE /\ cfgs' = [cfgs EXCEPT ![config].Debug = MapSet(@, call[p].name, call[p].val)]
            /\ res' = [res EXCEPT ![p].end = "returned"]
            /\ pc' = [pc EXCEPT ![p] = "idle"]
    /\ writer' = {}
    /\ UNCHANGED <<handleVars, config, nconf, slog, readers, mailSent, clock, call, cf,
                   overlap, allowLog, raced, exited>>

\* time passes
Tick ==
    /\ Running
    /\ clock < Epoch + MaxTicks
    /\ clock' = clock + 1
    /\ UNCHANGED <<handleVars, storeVars, lockVars, mailSent, pc, call, cf, res, overlap,
                   allowLog, raced, exited>>

\* ------------------------------------------------------------- handle operations

restVars == <<storeVars, lockVars, mailSent, clock, pc, call, cf, res, overlap, allowLog,
              raced, exited>>

\* func Logger(sect string) *Diag
NewLogger(sect) ==
    /\ Len(handles) < MaxHandles
    /\ handles' = Append(handles, Logger(sect))
    /\ ret' = [NoRet EXCEPT !.op = "NewLogger", !.new = Len(handles) + 1, !.arg = sect]
    /\ UNCHANGED restVars

\* the methods that copy the receiver: n = *d; n.field = e; return &n
Derive(h, op, n, e) ==
    /\ Len(handles) < MaxHandles
    /\ handles' = Append(handles, n)
    /\ ret' = [NoRet EXCEPT !.op = op, !.recv = h, !.new = Len(handles) + 1, !.arg = e]
    /\ UNCHANGED restVars

HWithMailTo(h, e) ==
    h \in DOMAIN handles /\ Derive(h, "WithMailTo", WithMailTo(handles[h], e), e)

HWithMailFrom(h, e) ==
    h \in DOMAIN handles /\ Derive(h, "WithMailFrom", WithMailFrom(handles[h], e), e)

HLogger(h, sect) ==
    h \in DOMAIN handles /\ Derive(h, "Logger", ChildLogger(handles[h], sect), sect)

\* the methods that assign through the receiver and return nothing
HSetDebugAll(h, x) ==
    /\ h \in DOMAIN handles
    /\ handles' = [handles EXCEPT ![h] = SetDebugAll(@, x)]
    /\ ret' = [NoRet EXCEPT !.op = "SetDebugAll", !.recv = h, !.flag = x]
    /\ UNCHANGED restVars

HSetStderr(h, x) ==
    /\ h \in DOMAIN handles
    /\ handles' = [handles EXCEPT ![h] = SetStderr(@, x)]
    /\ ret' = [NoRet EXCEPT !.op = "SetStderr", !.recv = h, !.flag = x]
    /\ UNCHANGED restVars

HandleSections == {"a", "b"}

NextHandle ==
    \/ \E sect \in HandleSections : NewLogger(sect)
    \/ \E h \in 1..MaxHandles : HWithMailTo(h, "y")
    \/ \E h \in 1..MaxHandles : HWithMailFrom(h, "g")
    \/ \E h \in 1..MaxHandles, sect \in HandleSections : HLogger(h, sect)
    \/ \E h \in 1..MaxHandles, x \in BOOLEAN : HSetDebugAll(h, x)
    \/ \E h \in 1..MaxHandles, x \in BOOLEAN : HSetStderr(h, x)

SpecHandle == Init /\ [][NextHandle]_vars

\* ------------------------------------------------------------- the program

GoodSite == [ok |-> TRUE, file |-> <<"/", "p", "/", "d", "/", "f">>, fun |-> <<"p", ".", "F">>]

\* Spec: Debug calls against SetConfig and SetDebugFlag (the gate, the
\* configuration store and its lock)
GateHandles == {Logger("a"), SetDebugAll(Logger("b"), TRUE), Logger("b")}

GateConfigs ==
    { [ZeroConfig EXCEPT !.Debug = dm] :
        dm \in {NilMap, MakeMap({}, TRUE), MakeMap({"a"}, TRUE), MakeMap({"all"}, TRUE)} }

DebugNames == {"a", "all"}

Next ==
    \E p \in Procs :
       \/ \E d \in GateHandles : Call(p, "Debug", d, <<"a">>, <<>>, GoodSite)
       \/ DebugRLock(p)
       \/ DebugGetConfig(p)
       \/ DebugGate(p)
       \/ Diag(p)
       \/ \E cfg \in GateConfigs : SetConfigLock(p, cfg)
       \/ SetConfig(p)
       \/ \E f \in DebugNames, v \in BOOLEAN : SetDebugFlagLock(p, f, v)
       \/ SetDebugFlag(p)

Spec == Init /\ [][Next]_vars

\* SpecSinks: every leveled call, on goroutine g1, against SetConfig on g2 (the
\* fan-out to stderr, syslog and mail, and the end of the process)
SinkHandles == {Logger("a"), SetStderr(WithMailTo(Logger("a"), "y"), FALSE)}

SinkFormats == {<<>>, <<"a">>}

SinkConfigs ==
    { [ZeroConfig EXCEPT !.MailTo = to, !.MailFrom = "f", !.Facility = fac] :
        to \in {"", "x"}, fac \in {"", "LOCAL5", "bogus"} }

NextSinks ==
    \/ \E kind \in LogKinds, d \in SinkHandles, format \in SinkFormats, site \in CallSites :
          Call("g1", kind, d, format, <<>>, site)
    \/ DebugRLock("g1")
    \/ DebugGetConfig("g1")
    \/ DebugGate("g1")
    \/ Diag("g1")
    \/ EmailRLock("g1")
    \/ EmailGetConfig("g1")
    \/ RateLimited("g1")
    \/ Sendmail("g1")
    \/ Exit("g1")
    \/ \E cfg \in SinkConfigs : SetConfigLock("g2", cfg)
    \/ SetConfig("g2")

SpecSinks == Init /\ [][NextSinks]_vars

\* SpecRate: Problem calls from every goroutine as time passes (the rate limiter)
RateHandles == {Logger("a"), WithMailTo(Logger("a"), "y")}

RateConfigs ==
    { [ZeroConfig EXCEPT !.MailTo = "x", !.MailFrom = "f", !.MailRateLimit = w] :
        w \in 0..MaxLimit }

InitRate == \E c \in RateConfigs : Configured(c)

NextRate ==
    \/ \E p \in Procs :
          \/ \E d \in RateHandles : Call(p, "Problem", d, <<"a">>, <<>>, NoSite)
          \/ Diag(p)
          \/ EmailRLock(p)
          \/ EmailGetConfig(p)
          \/ RateLimited(p)
          \/ Sendmail(p)
    \/ Tick

SpecRate == InitRate /\ [][NextRate]_vars

\* SpecFormat: Verbose calls with every format string and argument list
Formats == SeqsUpTo(Tokens, MaxFmt)
ArgLists == SeqsUpTo(SeqsUpTo(Chars, 1), 2)

NextFormat ==
    \/ \E format \in Formats, args \in ArgLists :
          Call("g1", "Verbose", defaultDiag, format, args, NoSite)
    \/ Diag("g1")

SpecFormat == Init /\ [][NextFormat]_vars

\* ------------------------------------------------------------- claims

\* the window the claims speak of: MailRateLimit, or one minute when it is 0
ClaimWindow(c) == IF c.MailRateLimit = 0 THEN TicksPerMinute ELSE c.MailRateLimit

\* C1: of the calls that resolve to one recipient under one configuration, any
\* two that rateLimited allowed were decided more than the window W apart (so
\* no two within one window, and none twice at one instant)
C1_OnePerWindow ==
    \A e1 \in allowLog : \A e2 \in allowLog :
        (e1.n # e2.n /\ e1.addr = e2.addr /\ e1.cfg = e2.cfg)
            => (IF e1.t >= e2.t THEN e1.t - e2.t ELSE e2.t - e1.t) > ClaimWindow(cfgs[e1.cfg])

\* C1 witness: two goroutines raced for one recipient at one instant; one was
\* allowed and is sending, the other was rate limited
C1_Witness ==
    \E p \in Procs : \E q \in Procs \ {p} :
        /\ pc[p] = "em_send" /\ res[p].at = clock
        /\ res[q].mail = "limited" /\ res[q].at = clock
        /\ MailTo(call[p].d, cfgs[config]) = MailTo(call[q].d, cfgs[config])
        /\ Cardinality(allowLog) >= 2

\* the recipient and the window of the rateLimited call goroutine p is about to make
RateAddr(p) == MailTo(call[p].d, cfgs[cf[p]])
RateW(p) == ClaimWindow(cfgs[cf[p]])
Decides(p) == pc[p] = "em_rate" /\ pc'[p] # "em_rate"
Allows(p) == pc'[p] = "em_send"

\* C8 as stated: the first allow for an address is true and records its time;
\* one made less than W after the last success is false; one made at or after
\* lastSuccess + W, exactly at lastSuccess + W included, is true
C8_Original ==
    [][\A p \in Procs :
         Decides(p) =>
            LET sent == mailSent[RateAddr(p)] IN
            /\ (sent = 0 => Allows(p) /\ mailSent'[RateAddr(p)] = clock)
            /\ (sent > 0 /\ clock - sent < RateW(p) => ~Allows(p))
            /\ (sent > 0 /\ clock >= sent + RateW(p) => Allows(p))]_vars

\* C8 amended: as C8, but a call is allowed only strictly after lastSuccess + W;
\* exactly at lastSuccess + W it is still refused.  An allowed call records its
\* time, a refused one leaves the ledger as it was
C8_StrictlyAfter ==
    [][\A p \in Procs :
         Decides(p) =>
            LET sent == mailSent[RateAddr(p)] IN
            /\ (sent = 0 => Allows(p))
            /\ (sent > 0 /\ clock - sent < RateW(p) => ~Allows(p))
            /\ (sent > 0 /\ clock = sent + RateW(p) => ~Allows(p))
            /\ (sent > 0 /\ clock > sent + RateW(p) => Allows(p))
            /\ (Allows(p) => mailSent' = [mailSent EXCEPT ![RateAddr(p)] = clock])
            /\ (~Allows(p) => mailSent' = mailSent)]_vars

\* C8 witness: a call decided exactly at lastSuccess + W was refused
C8_Witness ==
    \E p \in Procs :
        /\ res[p].mail = "limited"
        /\ res[p].at = clock
        /\ mailSent[MailTo(call[p].d, cfgs[config])] > 0
        /\ clock = mailSent[MailTo(call[p].d, cfgs[config])] + ClaimWindow(cfgs[config])

\* a returned log call of goroutine p handed res[p].text to its sinks
Delivered(p) == call[p].kind \in LogKinds /\ res[p].end = "returned" /\ res[p].gate # "suppress"

\* the format with one trailing newline taken off, as the claims describe it
ClaimStrip(f) == IF f # <<>> /\ f[Len(f)] = NL THEN SubSeq(f, 1, Len(f) - 1) ELSE f

\* C9 as stated: the text handed to the sinks never ends with a newline
C9_Original == \A p \in Procs : Delivered(p) => ~EndsWithNewline(res[p].text)

\* C9 amended: one trailing newline of the format string is removed and the
\* formatter appends none, so the text handed to the sinks ends with a newline
\* only when what is left of the format string ends with a newline (the
\* format ended with two or more) or with a verb (whose expansion ends the text)
C9_OneNewlineRemoved ==
    \A p \in Procs :
        Delivered(p) =>
            LET g == ClaimStrip(call[p].format) IN
            /\ Len(call[p].format) > 0
            /\ EndsWithNewline(res[p].text) => (g # <<>> /\ g[Len(g)] \in {NL, "%v"})

\* C9 witness: a format string ending with a newline reached the sinks without it
C9_Witness ==
    \E p \in Procs :
        /\ Delivered(p)
        /\ EndsWithNewline(call[p].format)
        /\ res[p].text = <<"a">>
        /\ res[p].stderr

\* the operations C7 calls handle mutators
Deriving == {"WithMailTo", "WithMailFrom", "Logger"}
Assigning == {"SetDebugAll", "SetStderr"}

\* the handle r.new is the receiver r.recv of before, but for the field the
\* operation r.op overrides, which is the argument
DerivedFrom(r, old, new) ==
    /\ Len(new) = Len(old) + 1
    /\ r.new = Len(new)
    /\ \A h \in DOMAIN old : new[h] = old[h]
    /\ CASE r.op = "WithMailTo" -> new[r.new] = [old[r.recv] EXCEPT !.mailTo = r.arg]
         [] r.op = "WithMailFrom" -> new[r.new] = [old[r.recv] EXCEPT !.mailFrom = r.arg]
         [] r.op = "Logger" -> new[r.new] = [old[r.recv] EXCEPT !.section = r.arg]
         [] OTHER -> FALSE

ClaimFlag(c, name) == ~c.Debug.isNil /\ name \in DOMAIN c.Debug.m /\ c.Debug.m[name]

\* C3: a Debug call that no SetConfig or SetDebugFlag overlaps goes on to the
\* sinks if and only if the handle's debugAll is true or the active
\* configuration maps the handle's section or "all" to true; otherwise it
\* returns with nothing formatted and nothing sent
C3_Gate ==
    [][\A p \in Procs :
         (pc[p] = "dbg_gate" /\ pc'[p] # "dbg_gate" /\ ~overlap[p]) =>
            /\ pc'[p] = "diag" <=>
                  \/ call[p].d.debugAll
                  \/ ClaimFlag(cfgs[config], call[p].d.section)
                  \/ ClaimFlag(cfgs[config], "all")
            /\ pc'[p] # "diag" =>
                  /\ pc'[p] = "idle"
                  /\ res'[p].end = "returned"
                  /\ res'[p].text = <<>> /\ ~res'[p].stderr /\ res'[p].prio = ""
                  /\ res'[p].mail = "none"]_vars

\* C3 witness: with no setter overlapping it, a Debug call on a handle without
\* debugAll, whose own section is not enabled, passed the gate on the "all"
\* flag of a configuration that SetConfig installed
C3_Witness ==
    \E p \in Procs :
        /\ pc[p] = "diag" /\ call[p].kind = "Debug"
        /\ res[p].gate = "pass" /\ res[p].clean
        /\ ~call[p].d.debugAll
        /\ nconf > 0
        /\ ~ClaimFlag(cfgs[config], call[p].d.section)
        /\ ClaimFlag(cfgs[config], "all")

\* C5: in every configuration state SetDebugFlag(name, v) returns normally,
\* with the flag for name set to v in the active configuration and every other
\* flag and every other field of the configuration as it was
C5_SetDebugFlagCompletes ==
    [][\A p \in Procs :
         (pc[p] = "sdf_write" /\ pc'[p] # "sdf_write") =>
            /\ pc'[p] = "idle" /\ res'[p].end = "returned"
            /\ config' = config
            /\ ClaimFlag(cfgs'[config], call[p].name) = call[p].val
            /\ \A k \in DebugNames \ {call[p].name} :
                  ClaimFlag(cfgs'[config], k) = ClaimFlag(cfgs[config], k)
            /\ [cfgs'[config] EXCEPT !.Debug = NilMap] = [cfgs[config] EXCEPT !.Debug = NilMap]]_vars

\* C10: no goroutine reads the configuration's debug map or the syslog handle
\* without the lock while another goroutine, holding the lock, writes it
C10_NoRace == raced = {}

\* C2: no Verbose, Debug, Problem or Bug call panics or brings the process down
C2_LogCallsReturn ==
    \A p \in Procs :
        call[p].kind \in {"Verbose", "Debug", "Problem", "Bug"}
            => res[p].end \notin {"panicked", "crashed"}

\* C4: a Fatal call hands its message to stderr (when the handle's stderr is
\* enabled) and to syslog (when a sink is open), then runs the mail path, which
\* starts no mail transport when the effective mailTo or mailFrom is empty, and
\* only then, and always, ends the process with a non-zero status
C4_FatalDispatchesThenExits ==
    [][\A p \in Procs :
         call[p].kind = "Fatal" =>
            /\ (pc[p] = "diag" /\ pc'[p] # "diag") =>
                  /\ pc'[p] = "em_rlock"
                  /\ res'[p].stderr = call[p].d.useStderr
                  /\ res'[p].syslog = slog
            /\ (pc[p] = "em_read" /\ pc'[p] # "em_read"
                  /\ (MailTo(call[p].d, cfgs[config]) = ""
                        \/ MailFrom(call[p].d, cfgs[config]) = "")) =>
                  /\ pc'[p] = "exit"
                  /\ res'[p].mail = "noaddr"
            /\ pc'[p] \notin {"idle", "panicked"}
            /\ (pc[p] # "exited" /\ pc'[p] = "exited") =>
                  /\ pc[p] = "exit"
                  /\ res[p].mail # "none"
                  /\ exited'.done /\ exited'.code # 0]_vars

\* a SetConfig of goroutine p returns, and the facility it was given
SetConfigReturns(p) == pc[p] = "sc_write" /\ pc'[p] = "idle"
UnknownFacility(p) == ToLower(call[p].cfg.Facility) \notin prioName

\* C6 as stated: whatever SetConfig calls came before, after a SetConfig with
\* an empty or unknown facility the syslog sink is closed
C6_Original ==
    [][\A p \in Procs : (SetConfigReturns(p) /\ UnknownFacility(p)) => slog' = "nil"]_vars

\* C6 amended: a SetConfig with an empty or unknown facility opens no sink and
\* raises nothing: the sink stays closed if none was open, and a sink an
\* earlier SetConfig opened stays open.  No SetConfig touches an open sink; a
\* log call forwards to syslog exactly when a sink is open, and writes to
\* stderr whatever the facility
C6_SinkLeftAsItWas ==
    [][/\ \A p \in Procs :
            SetConfigReturns(p) =>
               /\ res'[p].end = "returned"
               /\ UnknownFacility(p) => slog' = slog
               /\ slog # "nil" => slog' = slog
               /\ slog' # slog => slog' = ToLower(call[p].cfg.Facility)
       /\ \A p \in Procs :
            (pc[p] = "diag" /\ pc'[p] \notin {"diag", "panicked"}) =>
               /\ res'[p].syslog = slog
               /\ (res'[p].prio # "") = (slog # "nil")
               /\ res'[p].stderr = call[p].d.useStderr]_vars

\* C6 witness: the active configuration names an unknown facility, the sink an
\* earlier SetConfig opened is still open, and a log call has been forwarded to it
C6_Witness ==
    /\ cfgs[config].Facility = "bogus"
    /\ slog = "local5"
    /\ \E p \in Procs : res[p].end = "returned" /\ res[p].syslog = "local5" /\ res[p].prio # ""
    /\ \E p \in Procs : call[p].kind = "SetConfig" /\ res[p].end = "returned"

====
